---------------------------- MODULE Spec2Model ----------------------------
(***************************************************************************)
(* A model of PyWindowsPatchManager: the Update Installer                  *)
(* (src/update_installer.py), the Program Inventory                        *)
(* (src/program_detector.py), the Update Resolver (src/update_checker.py)  *)
(* with its Exclusion Filter (src/config_manager.py), and the PatchManager *)
(* driver (src/patch_manager.py).                                          *)
(*                                                                         *)
(* Python strings that the code inspects (names, package ids, keywords)    *)
(* are sequences of one-character strings, so that lower(), strip(),       *)
(* title(), replace() and "in" are computed character by character.        *)
(* Strings the code only passes on (tool output, error messages) are       *)
(* tokens.                                                                 *)
(***************************************************************************)
EXTENDS Integers, Sequences, FiniteSets, TLC

VARIABLES
    \* ---- UpdateInstaller.install_updates (one batch) ----
    cfg,        \* the configuration values the installer reads
    inProgs,    \* the argument `programs`
    ans,        \* what the external tool does for each input program
    hasCb,      \* whether a progress_callback was passed
    cbRaises,   \* the input programs for which the progress_callback raises
    ipc,        \* position of the calling thread inside install_updates
    toUpdate,   \* programs_to_update: indices into inProgs, in input order
    wpc,        \* per input program: position of its install attempt
    wloc,       \* per worker: the value of `completed` it loaded for += 1
    completed,  \* the nonlocal counter `completed`
    results,    \* the dict `results`: name -> UpdateResult
    cbLog,      \* the progress_callback invocations so far, in order
    ended,      \* items whose end_time is set and whose callback is not yet invoked, in end_time order
    active,     \* active_threads
    pindex,     \* program_index
    threads,    \* the list `threads` (indices of started, not yet reaped workers)
    reapLeft,   \* the rest of the copy threads[:] the reaping loop iterates
    wres,       \* per worker: its local UpdateResult (`result`)
    backups,    \* number of backup write attempts of this batch
    backupOk,   \* how the backup write ended ("none" before it is attempted)
    spawned,    \* the input programs whose install attempt has called subprocess.run
    returned,   \* the value install_updates returned ("none" before it returns)
    \* ---- ProgramDetector ----
    programs,   \* self.programs
    scanOut,    \* what the external tools answered to the last scan
    sameAsBefore, \* whether the last scan got the answers of the scan before it
    toolRuns,   \* the external tools that the last scan or check has run
    \* ---- PatchManager with its UpdateChecker ----
    pmPrograms, \* PatchManager.programs
    checkCfg,   \* the configuration values the checker reads
    checkIn,    \* the list check_for_updates was given by the last operation (empty
                \* when that made no check), as it was at the call
    checkAfter, \* the same Program objects when that call returned
    checkAns,   \* what the tools reported in that call, per program of the list
    checkLog,   \* the adapter checks that call made, in order
    updOut,     \* how the last operation ended if it was update_program (no
                \* name if it was another one)
    \* ---- PatchManagerGUI ----
    guiPrograms, \* PatchManagerGUI.programs
    workers     \* the worker threads of the GUI

ivars == <<cfg, inProgs, ans, hasCb, cbRaises, ipc, toUpdate, wpc, wloc, completed,
           results, cbLog, ended, active, pindex, threads, reapLeft, wres,
           backups, backupOk, spawned, returned>>

\* the arguments and configuration of the batch, never assigned by the code
inputs == <<cfg, inProgs, ans, hasCb, cbRaises>>

dvars == <<programs, scanOut, sameAsBefore, toolRuns>>

cvars == <<pmPrograms, checkCfg, checkIn, checkAfter, checkAns, checkLog, updOut>>

gvars == <<guiPrograms, workers>>

\* what install_updates leaves alone
otherThanInstaller == <<dvars, cvars, gvars>>

vars == <<ivars, dvars, cvars, gvars>>

-----------------------------------------------------------------------------
(* Bounds of the model *)

\* Longest list of programs passed to install_updates.
MaxItems == 3
\* Largest configured update_behavior.max_concurrent_updates.
MaxLimit == 2
\* Most rows one external tool reports in one scan.
MaxRows == 2
\* Most worker threads of the GUI that are alive at one time.
MaxWorkers == 2

-----------------------------------------------------------------------------
(* Strings *)

\* The text "" .
Empty == <<>>

\* The letters of the model's texts, lower case and upper case.
LowerLetters == <<"a", "b", "c", "d", "k", "l", "m", "v">>
UpperLetters == <<"A", "B", "C", "D", "K", "L", "M", "V">>

IsLower(c) == \E k \in DOMAIN LowerLetters : LowerLetters[k] = c
IsUpper(c) == \E k \in DOMAIN UpperLetters : UpperLetters[k] = c
IsLetter(c) == IsLower(c) \/ IsUpper(c)

LowerChar(c) ==
    IF IsUpper(c)
    THEN LowerLetters[CHOOSE k \in DOMAIN UpperLetters : UpperLetters[k] = c]
    ELSE c

UpperChar(c) ==
    IF IsLower(c)
    THEN UpperLetters[CHOOSE k \in DOMAIN LowerLetters : LowerLetters[k] = c]
    ELSE c

\* str.lower()
Lower(s) == [k \in DOMAIN s |-> LowerChar(s[k])]

\* str.strip()
RECURSIVE LStrip(_)
LStrip(s) == IF s # <<>> /\ Head(s) = " " THEN LStrip(Tail(s)) ELSE s
RECURSIVE RStrip(_)
RStrip(s) ==
    IF s # <<>> /\ s[Len(s)] = " " THEN RStrip(SubSeq(s, 1, Len(s) - 1)) ELSE s
Strip(s) == RStrip(LStrip(s))

\* str.replace('-', ' ')
ReplaceHyphens(s) == [k \in DOMAIN s |-> IF s[k] = "-" THEN " " ELSE s[k]]

\* str.title(): a letter that follows a non-letter is upper-cased, any other
\* letter is lower-cased
Title(s) ==
    [k \in DOMAIN s |->
        IF k = 1 \/ ~IsLetter(s[k - 1]) THEN UpperChar(s[k]) ELSE LowerChar(s[k])]

\* sub in s
Contains(s, sub) ==
    \E k \in 0..(Len(s) - Len(sub)) : SubSeq(s, k + 1, k + Len(sub)) = sub

\* The elements of a list.
Range(s) == {s[k] : k \in DOMAIN s}

Digits == <<"1", "2", "3", "4", "5", "6">>

\* d[k] = v on a dict
DictPut(d, k, v) == [x \in (DOMAIN d) \cup {k} |-> IF x = k THEN v ELSE d[x]]

\* dataclass Program (install_location is informational and left out).
Program(name, version, publisher, source, package_id, update_available, available_version) ==
    [name |-> name, version |-> version, publisher |-> publisher,
     source |-> source, package_id |-> package_id,
     update_available |-> update_available,
     available_version |-> available_version]

-----------------------------------------------------------------------------
(* ProgramDetector *)

\* priority.get(p.source, 4) with priority = {"winget": 1, "chocolatey": 2,
\* "registry": 3}
Priority(source) ==
    CASE source = "winget"     -> 1
      [] source = "chocolatey" -> 2
      [] source = "registry"   -> 3
      [] OTHER                 -> 4

\* key = program.name.lower().strip()
NormalizedName(name) == Strip(Lower(name))

\* The text "Unknown".
Unknown == <<"U", "n", "k", "n", "o", "w", "n">>

\* _parse_winget_output, lines 86-103, over the data rows of the table: a
\* row is the columns [name, id, version] that re.split gives.
RECURSIVE ParseWingetOutput(_, _)
ParseWingetOutput(progs, rows) ==
    IF rows = <<>> THEN progs
    ELSE LET row == Head(rows)
             skip == \/ row.name = Empty
                     \/ row.name = Unknown
                     \/ \E k \in DOMAIN progs : progs[k].name = row.name
         IN  ParseWingetOutput(
                 IF skip THEN progs
                 ELSE Append(progs, Program(row.name, row.version, Empty, "winget",
                                            row.id, FALSE, Empty)),
                 Tail(rows))

\* skip_keywords of _is_valid_program, those that the letters of the model
\* can spell.
SkipKeywords == {<<"k", "b">>}

\* _is_valid_program
IsValidProgram(entry) ==
    /\ entry.name # Empty
    /\ \A kw \in SkipKeywords : ~Contains(Lower(entry.name), kw)

\* _parse_registry_output with _add_registry_program, over the entries
\* [name, version, publisher] of the registry keys of the output.
RECURSIVE ParseRegistryOutput(_, _)
ParseRegistryOutput(progs, entries) ==
    IF entries = <<>> THEN progs
    ELSE LET entry == Head(entries)
             skip == \/ ~IsValidProgram(entry)
                     \/ \E k \in DOMAIN progs : progs[k].name = entry.name
         IN  ParseRegistryOutput(
                 IF skip THEN progs
                 ELSE Append(progs, Program(entry.name, entry.version, entry.publisher,
                                            "registry", Empty, FALSE, Empty)),
                 Tail(entries))

\* _parse_chocolatey_output, over the lines [name, version] of the output
\* that have two parts.
RECURSIVE ParseChocolateyOutput(_, _)
ParseChocolateyOutput(progs, rows) ==
    IF rows = <<>> THEN progs
    ELSE LET row == Head(rows)
             skip == \E k \in DOMAIN progs : progs[k].package_id = row.name
         IN  ParseChocolateyOutput(
                 IF skip THEN progs
                 ELSE Append(progs, Program(Title(ReplaceHyphens(row.name)), row.version,
                                            Empty, "chocolatey", row.name, FALSE, Empty)),
                 Tail(rows))

\* _scan_winget: the output is parsed when the tool exits with 0
ScanWinget(progs, out) ==
    IF out.status = "exit0" THEN ParseWingetOutput(progs, out.rows) ELSE progs

\* _scan_registry: one query per registry path, each parsed when it exits
\* with 0 and printed something
RECURSIVE ScanRegistry(_, _)
ScanRegistry(progs, outs) ==
    IF outs = <<>> THEN progs
    ELSE ScanRegistry(
             IF Head(outs).status = "exit0" /\ Head(outs).rows # <<>>
             THEN ParseRegistryOutput(progs, Head(outs).rows)
             ELSE progs,
             Tail(outs))

\* _scan_chocolatey
ScanChocolatey(progs, out) ==
    IF out.status = "exit0" THEN ParseChocolateyOutput(progs, out.rows) ELSE progs

\* self.programs.sort(key=lambda p: priority.get(p.source, 4)): a stable
\* sort on the four ranks
SortByPriority(progs) ==
    SelectSeq(progs, LAMBDA p : Priority(p.source) = 1)
        \o SelectSeq(progs, LAMBDA p : Priority(p.source) = 2)
        \o SelectSeq(progs, LAMBDA p : Priority(p.source) = 3)
        \o SelectSeq(progs, LAMBDA p : Priority(p.source) = 4)

\* unique_programs.append(program)
KeepRecord(unique, program) == Append(unique, program)

\* lines 275-289: the loop over the sorted list, with the dict `seen` and the
\* list `unique_programs`
RECURSIVE DedupeLoop(_, _, _)
DedupeLoop(rest, seen, unique) ==
    IF rest = <<>> THEN unique
    ELSE LET program == Head(rest)
             key == NormalizedName(program.name)
         IN  IF key \notin DOMAIN seen
             THEN DedupeLoop(Tail(rest), DictPut(seen, key, program),
                             KeepRecord(unique, program))
             ELSE LET existing == seen[key] IN
                  IF Priority(program.source) < Priority(existing.source)
                  THEN DedupeLoop(Tail(rest), DictPut(seen, key, program),
                                  KeepRecord(SelectSeq(unique, LAMBDA p : p # existing),
                                             program))
                  ELSE DedupeLoop(Tail(rest), seen, unique)

\* _deduplicate_programs
DeduplicatePrograms(progs) == DedupeLoop(SortByPriority(progs), <<>>, <<>>)

\* (a bug: the list of the scan before is kept)
KeepPrograms(progs) == progs

\* line 29: self.programs = []
ResetPrograms(progs) == <<>>

\* The records the three adapters add to the list, before reconciliation.
ScannedList(progs, out) ==
    ScanChocolatey(ScanRegistry(ScanWinget(progs, out.winget), out.registry),
                   out.chocolatey)

\* scan_installed_programs on a detector whose list was progs
ScanInstalledPrograms(progs, out) ==
    DeduplicatePrograms(ScannedList(ResetPrograms(progs), out))

-----------------------------------------------------------------------------
(* What the external tools report in a scan *)

Ver1 == <<"1">>

WingetRows ==
    {[name |-> <<"A", "b">>, id |-> <<"W", ".", "a">>, version |-> Ver1],
     [name |-> <<"C", "d">>, id |-> <<"a", "b">>, version |-> Ver1]}

RegistryEntries ==
    {[name |-> <<"a", "b">>, version |-> Ver1, publisher |-> <<"M">>],
     [name |-> <<"A", "b">>, version |-> Ver1, publisher |-> Empty]}

ChocolateyRows ==
    {[name |-> <<"a", "b">>, version |-> Ver1],
     [name |-> <<"a", "b", "-">>, version |-> Ver1]}

\* The lists of at most MaxRows different rows of a set.
RowLists(S) ==
    LET Lists(n) == {f \in [1..n -> S] : \A i, j \in 1..n : i # j => f[i] # f[j]}
    IN  UNION {Lists(n) : n \in 0..MaxRows}

\* What one call of a tool gives: a list of rows and exit code 0, or one row
\* and another exit code.
ToolOutputs(S) ==
    {[status |-> "exit0", rows |-> r] : r \in RowLists(S)}
        \cup {[status |-> "nonzero", rows |-> <<x>>] : x \in S}

\* The query of the second registry path times out, or lists an update
\* package and a program.
SecondRegistryOutputs ==
    {[status |-> "timeout", rows |-> <<>>],
     [status |-> "exit0",
      rows |-> <<[name |-> <<"K", "b", " ", "a">>, version |-> Ver1, publisher |-> <<"M">>],
                 [name |-> <<"A", "b">>, version |-> Ver1, publisher |-> Empty]>>]}

ScanOutputs ==
    {[winget |-> w, registry |-> <<r1, r2>>, chocolatey |-> c] :
        w \in ToolOutputs(WingetRows),
        r1 \in ToolOutputs(RegistryEntries),
        r2 \in SecondRegistryOutputs,
        c \in ToolOutputs(ChocolateyRows)}

\* Before the first scan no tool has answered.
NoOutput ==
    [winget |-> [status |-> "none", rows |-> <<>>],
     registry |-> <<>>,
     chocolatey |-> [status |-> "none", rows |-> <<>>]]

InitDetector ==
    /\ programs = <<>>
    /\ scanOut = NoOutput
    /\ sameAsBefore = FALSE
    /\ toolRuns = {}

\* The executables that _scan_winget, _scan_registry and _scan_chocolatey
\* pass to subprocess.run, whatever the scans before have met.
ScanTools == {"winget", "reg", "choco"}

\* scan_installed_programs
Scan ==
    \E out \in ScanOutputs :
        /\ programs' = ScanInstalledPrograms(programs, out)
        /\ scanOut' = out
        /\ sameAsBefore' = (out = scanOut)
        /\ toolRuns' = ScanTools
        /\ UNCHANGED <<ivars, cvars, gvars>>

\* An installer on which install_updates is not called.
NoBatch ==
    /\ inProgs = <<>> /\ ans = <<>> /\ hasCb = FALSE /\ cbRaises = {}
    /\ ipc = "idle" /\ toUpdate = <<>>
    /\ wpc = <<>> /\ wloc = <<>> /\ wres = <<>>
    /\ completed = 0 /\ results = <<>> /\ cbLog = <<>> /\ ended = <<>>
    /\ active = 0 /\ pindex = 0 /\ threads = <<>> /\ reapLeft = <<>>
    /\ backups = 0 /\ backupOk = "none" /\ returned = "none"
    /\ spawned = {}

IdleInstaller ==
    /\ cfg = [create_backups |-> TRUE, update_all_at_once |-> FALSE, max_concurrent |-> 3]
    /\ NoBatch

\* A worker thread of the GUI: the PatchManager call it is in (op), the
\* external tools the call has still to run, whether the process of the
\* first of them is running, what the tools of the call answer (plan), and
\* the names _update_worker has still to call update_program with.
NoPlan ==
    [name |-> <<>>, scanned |-> FALSE, out |-> NoOutput, list |-> <<>>,
     inp |-> [answers |-> <<>>, a |-> "exit0"]]

IdleWorker ==
    [op |-> "idle", tools |-> <<>>, running |-> FALSE, plan |-> NoPlan, todo |-> <<>>]

Workers == 1..MaxWorkers

\* No GUI: no worker thread.
IdleGui ==
    /\ guiPrograms = <<>>
    /\ workers = [w \in Workers |-> IdleWorker]

\* No call of update_program.
NoUpdate ==
    [name |-> <<>>, found |-> FALSE, raised |-> FALSE, attempted |-> FALSE,
     success |-> FALSE]

\* A PatchManager that has not scanned, with the first configuration.
IdleChecker ==
    /\ pmPrograms = <<>>
    /\ checkCfg = [winget |-> TRUE, chocolatey |-> TRUE, custom |-> TRUE,
                   exclusions |-> [programs |-> <<>>, publishers |-> <<>>,
                                   keywords |-> <<>>]]
    /\ checkIn = <<>> /\ checkAfter = <<>> /\ checkAns = <<>> /\ checkLog = <<>>
    /\ updOut = NoUpdate

\* A new detector beside an idle installer and an idle manager.
InitScan == InitDetector /\ IdleInstaller /\ IdleChecker /\ IdleGui

SpecScan == InitScan /\ [][Scan]_vars

-----------------------------------------------------------------------------
(* ConfigManager.is_program_excluded and UpdateChecker *)

\* is_program_excluded: the name is a listed program, or the publisher is
\* not empty and is a listed publisher, or a listed keyword is in the name;
\* every comparison is on lower-cased texts.
IsProgramExcluded(exclusions, program_name, publisher) ==
    \/ \E k \in DOMAIN exclusions.programs :
           Lower(exclusions.programs[k]) = Lower(program_name)
    \/ /\ publisher # Empty
       /\ \E k \in DOMAIN exclusions.publishers :
              Lower(exclusions.publishers[k]) = Lower(publisher)
    \/ \E k \in DOMAIN exclusions.keywords :
           Contains(Lower(program_name), Lower(exclusions.keywords[k]))

\* What the tool that a check runs does.  It exits with 0 and reports
\* "nothing" (no update), "version" (an update and its version number) or
\* "noversion" (an update and no version number); or "timeout": it does not
\* end in time or cannot be run, and subprocess.run raises; or "nonzero": it
\* exits with another code, its output having the words that the adapter
\* looks for and no version number.
CheckAnswers == {"nothing", "version", "noversion", "timeout", "nonzero"}

\* The version number a tool reports.
VerNew == <<"2">>

\* (a bug: a tool that times out counts as an update)
CheckWingetUpdatesTimeoutCounts(program, a) ==
    IF program.package_id = Empty \/ a = "nothing" THEN program
    ELSE IF a = "version"
         THEN [program EXCEPT !.available_version = VerNew, !.update_available = TRUE]
         ELSE [program EXCEPT !.update_available = TRUE, !.available_version = Unknown]

\* _check_winget_updates: the exit code is not looked at
CheckWingetUpdates(program, a) ==
    IF program.package_id = Empty THEN program
    ELSE CASE a = "version" ->
                  [program EXCEPT !.available_version = VerNew, !.update_available = TRUE]
           [] a \in {"noversion", "nonzero"} ->
                  [program EXCEPT !.update_available = TRUE, !.available_version = Unknown]
           [] OTHER -> program

\* (a bug: an update without a version number is not taken)
CheckChocolateyUpdatesNeedsVersion(program, a) ==
    IF program.package_id # Empty /\ a = "version"
    THEN [program EXCEPT !.available_version = VerNew, !.update_available = TRUE]
    ELSE program

\* _check_chocolatey_updates: the exit code is not looked at
CheckChocolateyUpdates(program, a) ==
    IF program.package_id = Empty THEN program
    ELSE CASE a = "version" ->
                  [program EXCEPT !.available_version = VerNew, !.update_available = TRUE]
           [] a \in {"noversion", "nonzero"} ->
                  [program EXCEPT !.update_available = TRUE, !.available_version = Unknown]
           [] OTHER -> program

\* version.parse(...) of a one-digit version; -1 when it raises (the text is
\* empty or is no version)
ParseVersion(v) ==
    IF Len(v) = 1 /\ \E n \in DOMAIN Digits : Digits[n] = v[1]
    THEN CHOOSE n \in DOMAIN Digits : Digits[n] = v[1]
    ELSE -1

\* (a bug: the reported version is stored whether it is newer or not)
CheckVlcUpdateStoresVersion(program, a) ==
    IF a = "version" /\ ParseVersion(program.version) # -1
    THEN [program EXCEPT !.available_version = VerNew,
                         !.update_available =
                             ParseVersion(VerNew) > ParseVersion(program.version)]
    ELSE program

\* _check_vlc_update (the checkers of the other three programs are the same
\* but for the package they search): the reported version is taken when
\* both versions parse and it is greater than the installed one; a tool that
\* exits with another code than 0 is not listened to
CheckVlcUpdate(program, a) ==
    IF /\ a = "version"
       /\ ParseVersion(program.version) # -1
       /\ ParseVersion(VerNew) > ParseVersion(program.version)
    THEN [program EXCEPT !.available_version = VerNew, !.update_available = TRUE]
    ELSE program

\* The keys of custom_checkers that the letters of the model can spell.
CustomCheckers == {<<"v", "l", "c">>}

\* _check_custom_updates
CheckCustomUpdates(program, a) ==
    IF \E name \in CustomCheckers : Contains(Lower(program.name), name)
    THEN CheckVlcUpdate(program, a)
    ELSE program

\* (a bug: no program is skipped)
NeverSkipped(config, program) == FALSE

\* line 19: if self.config.is_program_excluded(program.name, program.publisher)
Skipped(config, program) ==
    IsProgramExcluded(config.exclusions, program.name, program.publisher)

\* (a bug: the fallback is used whether it is enabled or not)
CustomAlways(config) == TRUE

\* line 27: self.config.get('update_sources.custom.enabled')
CustomEnabled(config) == config.custom

\* lines 23-28: the check that is made for a program that is not skipped
CheckFor(config, program) ==
    IF program.source = "winget" /\ config.winget THEN "winget"
    ELSE IF program.source = "chocolatey" /\ config.chocolatey THEN "chocolatey"
    ELSE IF CustomEnabled(config) THEN "custom"
    ELSE "none"

\* The Program object after the check made for it.
Checked(config, program, a) ==
    CASE CheckFor(config, program) = "winget"     -> CheckWingetUpdates(program, a)
      [] CheckFor(config, program) = "chocolatey" -> CheckChocolateyUpdates(program, a)
      [] CheckFor(config, program) = "custom"     -> CheckCustomUpdates(program, a)
      [] OTHER                                    -> program

\* The loop of check_for_updates from the k-th program on.  `updated` is the
\* list updated_programs, `after` the objects of the argument as the loop
\* leaves them, `calls` the checks made.
RECURSIVE CheckLoop(_, _, _, _, _)
CheckLoop(config, progs, answers, k, acc) ==
    IF k > Len(progs) THEN acc
    ELSE LET program == progs[k] IN
         IF Skipped(config, program)
         THEN CheckLoop(config, progs, answers, k + 1,
                        [acc EXCEPT !.after = Append(@, program)])
         ELSE LET checked == Checked(config, program, answers[k])
                  call == CheckFor(config, program)
              IN  CheckLoop(config, progs, answers, k + 1,
                            [updated |-> Append(acc.updated, checked),
                             after |-> Append(acc.after, checked),
                             calls |-> IF call = "none" THEN acc.calls
                                       ELSE Append(acc.calls,
                                                   [check |-> call, name |-> program.name])])

\* subprocess.run is reached in the check made for the program.
RunsTool(config, program) ==
    /\ ~Skipped(config, program)
    /\ CASE CheckFor(config, program) \in {"winget", "chocolatey"} ->
                 program.package_id # Empty
         [] CheckFor(config, program) = "custom" ->
                 \E name \in CustomCheckers : Contains(Lower(program.name), name)
         [] OTHER -> FALSE

\* The executables that one call of check_for_updates passes to
\* subprocess.run: winget and choco by the adapters, winget (search) by the
\* fallback checkers.
CheckTools(config, progs) ==
    {IF CheckFor(config, progs[k]) = "chocolatey" THEN "choco" ELSE "winget" :
        k \in {j \in DOMAIN progs : RunsTool(config, progs[j])}}

\* What the tools do in one call of check_for_updates, per program of the
\* list ("nothing" for a program no tool is run for).
AnswerLists(config, progs) ==
    {answers \in [DOMAIN progs -> CheckAnswers] :
        \A k \in DOMAIN progs :
            ~RunsTool(config, progs[k]) => answers[k] = "nothing"}

\* check_for_updates: what it returns is the field `updated`
CheckForUpdates(config, progs, answers) ==
    CheckLoop(config, progs, answers, 1, [updated |-> <<>>, after |-> <<>>, calls |-> <<>>])

-----------------------------------------------------------------------------
(* UpdateInstaller: one install attempt *)

\* UpdateResult.__init__
UpdateResult ==
    [success |-> FALSE, error_message |-> "", output |-> "",
     start_time |-> "unset", end_time |-> "unset"]

\* What subprocess.run can do for one install call.
ToolAnswers == {"exit0", "nonzero", "timeout", "exception"}

\* _install_winget_update: <<success, output, error>>
InstallWingetUpdate(program, a) ==
    IF program.package_id = Empty THEN <<FALSE, "", "No package ID available">>
    ELSE CASE a = "exit0"     -> <<TRUE, "stdout", "stderr">>
           [] a = "nonzero"   -> <<FALSE, "stdout", "stderr">>
           [] a = "timeout"   -> <<FALSE, "", "Update timed out">>
           [] OTHER           -> <<FALSE, "", "Exception: e">>

\* _install_chocolatey_update: <<success, output, error>>
InstallChocolateyUpdate(program, a) ==
    IF program.package_id = Empty THEN <<FALSE, "", "No package ID available">>
    ELSE CASE a = "exit0"     -> <<TRUE, "stdout", "stderr">>
           [] a = "nonzero"   -> <<FALSE, "stdout", "stderr">>
           [] a = "timeout"   -> <<FALSE, "", "Update timed out">>
           [] OTHER           -> <<FALSE, "", "Exception: e">>

\* _install_custom_update
InstallCustomUpdate(program, a) ==
    <<FALSE, "", "Custom update not implemented">>

\* (a bug: the test of the package id is left out)
SpawnsProcessWithoutId(program) == program.source \in {"winget", "chocolatey"}

\* Whether the install attempt of `program` reaches subprocess.run.
SpawnsProcess(program) ==
    /\ program.source \in {"winget", "chocolatey"}
    /\ program.package_id # Empty

\* _install_single_update, lines 70-87: the outcome of the install call is
\* written to the result and end_time is set.  The times are wall-clock
\* readings the program never inspects: a time is "unset" or "set".
InstallSingleUpdate(program, a) ==
    LET r == IF program.source = "winget" THEN InstallWingetUpdate(program, a)
             ELSE IF program.source = "chocolatey" THEN InstallChocolateyUpdate(program, a)
             ELSE InstallCustomUpdate(program, a)
    IN  [success |-> r[1], output |-> r[2], error_message |-> r[3],
         start_time |-> "set", end_time |-> "set"]

-----------------------------------------------------------------------------
(* PatchManager *)

\* The exclusion lists of the configurations of the model.
ExclusionLists ==
    {[programs |-> <<>>, publishers |-> <<>>, keywords |-> <<>>],
     [programs |-> <<<<"A", "B">>>>, publishers |-> <<>>, keywords |-> <<>>],
     [programs |-> <<>>, publishers |-> <<Empty, <<"m">>>>, keywords |-> <<>>],
     [programs |-> <<>>, publishers |-> <<>>, keywords |-> <<<<"L">>>>]}

CheckConfigs ==
    [winget : BOOLEAN, chocolatey : BOOLEAN, custom : BOOLEAN,
     exclusions : ExclusionLists]

Failed == [status |-> "nonzero", rows |-> <<>>]

\* The tool's executable is not found: subprocess.run raises.
NotFound == [status |-> "notfound", rows |-> <<>>]

\* What the tools report in the scans PatchManager asks for: a program of
\* each source; a winget program that has the version the tools report and
\* a registry program that has it; no tool that works; two registry
\* programs, the second without DisplayVersion.
PMScanOutputs ==
    {[winget |-> [status |-> "exit0",
                  rows |-> <<[name |-> <<"A", "b">>, id |-> <<"W", ".", "a">>,
                              version |-> Ver1]>>],
      registry |-> <<[status |-> "exit0",
                      rows |-> <<[name |-> <<"D", "a">>, version |-> Ver1,
                                  publisher |-> <<"M">>]>>],
                     [status |-> "timeout", rows |-> <<>>]>>,
      chocolatey |-> [status |-> "exit0",
                      rows |-> <<[name |-> <<"c", "d">>, version |-> Ver1]>>]],
     [winget |-> [status |-> "exit0",
                  rows |-> <<[name |-> <<"C", "d">>, id |-> <<"C", ".", "d">>,
                              version |-> VerNew]>>],
      registry |-> <<[status |-> "exit0",
                      rows |-> <<[name |-> <<"V", "l", "c">>, version |-> VerNew,
                                  publisher |-> Empty]>>],
                     [status |-> "timeout", rows |-> <<>>]>>,
      chocolatey |-> Failed],
     [winget |-> NotFound, registry |-> <<Failed, Failed>>, chocolatey |-> NotFound],
     [winget |-> NotFound,
      registry |-> <<[status |-> "exit0",
                      rows |-> <<[name |-> <<"V", "l", "c">>, version |-> Ver1,
                                  publisher |-> <<"M">>]>>],
                     [status |-> "exit0",
                      rows |-> <<[name |-> <<"V", "l", "c", " ", "a">>, version |-> Unknown,
                                  publisher |-> <<"M">>]>>]>>,
      chocolatey |-> Failed]}

\* PatchManager.__init__ with its detector, checker and installer, under one
\* of the configurations
InitCheck ==
    /\ InitDetector
    /\ IdleInstaller
    /\ IdleGui
    /\ pmPrograms = <<>>
    /\ checkCfg \in CheckConfigs
    /\ checkIn = <<>> /\ checkAfter = <<>> /\ checkAns = <<>> /\ checkLog = <<>>
    /\ updOut = NoUpdate

\* lines 58-59: self.programs = self.detector.scan_installed_programs(), the
\* tools answering `out`
ScanEffect(out) ==
    /\ programs' = ScanInstalledPrograms(programs, out)
    /\ scanOut' = out
    /\ sameAsBefore' = (out = scanOut)
    /\ toolRuns' = ScanTools
    /\ pmPrograms' = programs'
    /\ checkIn' = <<>> /\ checkAfter' = <<>> /\ checkAns' = <<>> /\ checkLog' = <<>>
    /\ updOut' = NoUpdate

\* scan_programs(force_rescan)
ScanPrograms ==
    \E force_rescan \in BOOLEAN, out \in PMScanOutputs :
        /\ pmPrograms = <<>> \/ force_rescan
        /\ ScanEffect(out)
        /\ UNCHANGED <<checkCfg, ivars, gvars>>

\* The detector's list holds the objects that the check has changed.
SharedObjects(progs, after) ==
    [k \in DOMAIN progs |->
        IF \E j \in DOMAIN after : after[j].name = progs[k].name
        THEN after[CHOOSE j \in DOMAIN after : after[j].name = progs[k].name]
        ELSE progs[k]]

\* line 69: self.programs = self.checker.check_for_updates(self.programs),
\* the detector's list being `detected`
AssignChecked(list, detected, answers) ==
    \E r \in {CheckForUpdates(checkCfg, list, answers)} :
        /\ pmPrograms' = r.updated
        /\ programs' = SharedObjects(detected, r.after)
        /\ checkIn' = list
        /\ checkAfter' = r.after
        /\ checkAns' = answers
        /\ checkLog' = r.calls

\* lines 65-69: the scan of a PatchManager without programs (`scannedFirst`,
\* the tools answering `out` and the scan giving `list`), then the check of
\* `list`, the tools answering `answers`
CheckEffect(scannedFirst, out, list, answers) ==
    /\ IF scannedFirst
       THEN /\ scanOut' = out
            /\ sameAsBefore' = (out = scanOut)
            /\ toolRuns' = ScanTools \cup CheckTools(checkCfg, list)
            /\ AssignChecked(list, list, answers)
       ELSE /\ UNCHANGED <<scanOut, sameAsBefore>>
            /\ toolRuns' = CheckTools(checkCfg, list)
            /\ AssignChecked(list, programs, answers)
    /\ updOut' = NoUpdate

\* check_updates: a PatchManager without programs scans first
CheckUpdates ==
    /\ IF pmPrograms = <<>>
       THEN \E out \in PMScanOutputs :
                \E scanned \in {ScanInstalledPrograms(programs, out)} :
                    \E answers \in AnswerLists(checkCfg, scanned) :
                        CheckEffect(TRUE, out, scanned, answers)
       ELSE \E answers \in AnswerLists(checkCfg, pmPrograms) :
                CheckEffect(FALSE, scanOut, pmPrograms, answers)
    /\ UNCHANGED <<checkCfg, ivars, gvars>>

\* The names update_program is called with.
UpdateNames == {<<"a", "b">>, <<"C", "d">>, <<"V", "l", "c">>}

\* lines 145-149: the first program of the list whose lower-cased name holds
\* the lower-cased program_name (0 if there is none)
FindProgram(progs, program_name) ==
    LET hits == {k \in DOMAIN progs : Contains(Lower(progs[k].name), Lower(program_name))}
    IN  IF hits = {} THEN 0 ELSE CHOOSE k \in hits : \A j \in hits : k <= j

\* The executable install_single_program runs for the program, if any.
InstallTools(program) ==
    IF ~SpawnsProcess(program) THEN {}
    ELSE IF program.source = "winget" THEN {"winget"} ELSE {"choco"}

\* What the tool of install_single_program does in update_program.
UpdateAnswers == {"exit0", "timeout"}

\* lines 156-165: the check of the one program leaves a program with an
\* update, which install_single_program is called for
Installs(program, answers) ==
    LET updated == CheckForUpdates(checkCfg, <<program>>, answers).updated
    IN  updated # <<>> /\ updated[1].update_available

\* What the tools do in one call of update_program that has found the
\* program: the answers to the check, and the answer to the install.
UpdateInputs(program) ==
    {[answers |-> answers, a |-> a] :
        answers \in AnswerLists(checkCfg, <<program>>), a \in UpdateAnswers}
    \ {inp \in [answers : AnswerLists(checkCfg, <<program>>), a : UpdateAnswers \ {"exit0"}] :
           ~(Installs(program, inp.answers) /\ SpawnsProcess(program))}

\* update_program(program_name), lines 151-169, for the program found at
\* place k of `list`, the detector's list being `detected`: line 156 assigns
\* the checked one-program list to self.programs, then self.programs[0],
\* which raises IndexError when the program is excluded, then
\* install_single_program if an update is available.  `ran` are the tools
\* the scan of line 142 has run.
UpdateFound(program_name, list, detected, k, ran, answers, a) ==
    \E r \in {CheckForUpdates(checkCfg, <<list[k]>>, answers)} :
        /\ pmPrograms' = r.updated
        /\ programs' = SharedObjects(detected, r.after)
        /\ checkIn' = <<list[k]>>
        /\ checkAfter' = r.after
        /\ checkAns' = answers
        /\ checkLog' = r.calls
        /\ IF pmPrograms' = <<>>
           THEN /\ updOut' = [name |-> program_name, found |-> TRUE, raised |-> TRUE,
                              attempted |-> FALSE, success |-> FALSE]
                /\ toolRuns' = ran \cup CheckTools(checkCfg, <<list[k]>>)
           ELSE IF ~pmPrograms'[1].update_available
           THEN /\ updOut' = [name |-> program_name, found |-> TRUE, raised |-> FALSE,
                              attempted |-> FALSE, success |-> FALSE]
                /\ toolRuns' = ran \cup CheckTools(checkCfg, <<list[k]>>)
           ELSE /\ updOut' = [name |-> program_name, found |-> TRUE, raised |-> FALSE,
                              attempted |-> TRUE,
                              success |-> InstallSingleUpdate(pmPrograms'[1], a).success]
                /\ toolRuns' = ran \cup CheckTools(checkCfg, <<list[k]>>)
                                   \cup InstallTools(pmPrograms'[1])

\* lines 151-153: no program of the list has the name
UpdateNotFound(program_name, list, detected, ran) ==
    /\ pmPrograms' = list
    /\ programs' = detected
    /\ checkIn' = <<>> /\ checkAfter' = <<>> /\ checkAns' = <<>> /\ checkLog' = <<>>
    /\ toolRuns' = ran
    /\ updOut' = [name |-> program_name, found |-> FALSE, raised |-> FALSE,
                  attempted |-> FALSE, success |-> FALSE]

\* lines 141-169: the scan of a PatchManager without programs (`scannedFirst`,
\* the tools answering `out` and the scan giving `list`), then the search of
\* the program in `list`, its check and its install, the tools answering
\* `inp`
UpdateEffect(program_name, scannedFirst, out, list, inp) ==
    /\ IF scannedFirst
       THEN scanOut' = out /\ sameAsBefore' = (out = scanOut)
       ELSE UNCHANGED <<scanOut, sameAsBefore>>
    /\ \E k \in {FindProgram(list, program_name)} :
           IF k = 0
           THEN UpdateNotFound(program_name, list,
                               IF scannedFirst THEN list ELSE programs,
                               IF scannedFirst THEN ScanTools ELSE {})
           ELSE UpdateFound(program_name, list,
                            IF scannedFirst THEN list ELSE programs, k,
                            IF scannedFirst THEN ScanTools ELSE {},
                            inp.answers, inp.a)

\* What the tools do in one call of update_program(program_name) on `list`.
UpdateInputsFor(list, program_name) ==
    IF FindProgram(list, program_name) = 0
    THEN {[answers |-> <<>>, a |-> "exit0"]}
    ELSE UpdateInputs(list[FindProgram(list, program_name)])

\* update_program(program_name): a PatchManager without programs scans first
UpdateProgram ==
    \E program_name \in UpdateNames :
        /\ IF pmPrograms = <<>>
           THEN \E out \in PMScanOutputs :
                    \E scanned \in {ScanInstalledPrograms(programs, out)} :
                        \E inp \in UpdateInputsFor(scanned, program_name) :
                            UpdateEffect(program_name, TRUE, out, scanned, inp)
           ELSE \E inp \in UpdateInputsFor(pmPrograms, program_name) :
                    UpdateEffect(program_name, FALSE, scanOut, pmPrograms, inp)
        /\ UNCHANGED <<checkCfg, ivars, gvars>>

NextCheck == ScanPrograms \/ CheckUpdates

SpecCheck == InitCheck /\ [][NextCheck]_vars

\* The operations of PatchManager that the GUI's workers call.
NextUpdate == ScanPrograms \/ CheckUpdates \/ UpdateProgram

SpecUpdate == InitCheck /\ [][NextUpdate]_vars

------------------------------------------------------------------------------
(* PatchManagerGUI: the worker threads *)

\* What the tools answer to the scans, checks and installs of the GUI's
\* workers.
GuiScanOutputs ==
    {out \in PMScanOutputs : out.chocolatey.status = "exit0"}

GuiAnswers == {"version"}

GuiAnswerLists(list) ==
    {answers \in AnswerLists(checkCfg, list) :
        \A k \in DOMAIN answers :
            RunsTool(checkCfg, list[k]) => answers[k] \in GuiAnswers}

GuiUpdateInputs(list, program_name) ==
    IF FindProgram(list, program_name) = 0
    THEN UpdateInputsFor(list, program_name)
    ELSE {inp \in UpdateInputsFor(list, program_name) :
             /\ inp.answers \in GuiAnswerLists(<<list[FindProgram(list, program_name)]>>)
             /\ inp.a = "exit0"}

\* The processes one scan starts, in order: winget list, reg query for the
\* two registry paths, choco list (no process for a tool that is not
\* installed).
ScanToolSeq(out) ==
    (IF out.winget.status = "notfound" THEN <<>> ELSE <<"winget">>)
        \o <<"reg", "reg">>
        \o (IF out.chocolatey.status = "notfound" THEN <<>> ELSE <<"choco">>)

\* The processes check_for_updates(progs) starts, in order.
CheckToolSeq(config, progs) ==
    LET ran == SelectSeq(progs, LAMBDA program : RunsTool(config, program))
    IN  [k \in DOMAIN ran |->
            IF CheckFor(config, ran[k]) = "chocolatey" THEN "choco" ELSE "winget"]

\* The processes update_program starts after its scan, in order: the check
\* of the program found, then its install.
UpdateToolSeq(list, program_name, inp) ==
    LET k == FindProgram(list, program_name)
    IN  IF k = 0 THEN <<>>
        ELSE CheckToolSeq(checkCfg, <<list[k]>>)
                 \o (IF Installs(list[k], inp.answers) /\ SpawnsProcess(list[k])
                     THEN <<CHOOSE t \in InstallTools(list[k]) : TRUE>>
                     ELSE <<>>)

\* _initial_scan_worker and _scan_worker in patch_manager.scan_programs,
\* the tools answering `out`
ScanWorker(out) ==
    [op |-> "scan", tools |-> ScanToolSeq(out), running |-> FALSE,
     plan |-> [NoPlan EXCEPT !.scanned = TRUE, !.out = out], todo |-> <<>>]

\* _check_updates_worker in patch_manager.check_updates
CheckWorker(scannedFirst, out, list, answers) ==
    [op |-> "check",
     tools |-> (IF scannedFirst THEN ScanToolSeq(out) ELSE <<>>)
                   \o CheckToolSeq(checkCfg, list),
     running |-> FALSE,
     plan |-> [NoPlan EXCEPT !.scanned = scannedFirst, !.out = out, !.list = list,
                             !.inp = [answers |-> answers, a |-> "exit0"]],
     todo |-> <<>>]

\* _update_worker in patch_manager.update_program(program_name), with the
\* names `rest` still to come
UpdateWorker(program_name, scannedFirst, out, list, inp, rest) ==
    [op |-> "update",
     tools |-> (IF scannedFirst THEN ScanToolSeq(out) ELSE <<>>)
                   \o UpdateToolSeq(list, program_name, inp),
     running |-> FALSE,
     plan |-> [name |-> program_name, scanned |-> scannedFirst, out |-> out,
               list |-> list, inp |-> inp],
     todo |-> rest]

\* __init__: no programs, and initial_scan has started _initial_scan_worker,
\* which is in patch_manager.scan_programs()
InitGui ==
    /\ InitDetector
    /\ NoBatch
    /\ cfg \in [create_backups : {TRUE}, update_all_at_once : {FALSE},
                max_concurrent : 1..MaxLimit]
    /\ pmPrograms = <<>>
    /\ checkCfg = [winget |-> TRUE, chocolatey |-> TRUE, custom |-> TRUE,
                   exclusions |-> [programs |-> <<>>, publishers |-> <<>>,
                                   keywords |-> <<>>]]
    /\ checkIn = <<>> /\ checkAfter = <<>> /\ checkAns = <<>> /\ checkLog = <<>>
    /\ updOut = NoUpdate
    /\ guiPrograms = <<>>
    /\ \E out \in GuiScanOutputs :
           workers = [w \in Workers |-> IF w = 1 THEN ScanWorker(out) ELSE IdleWorker]

\* scan_programs (the "Scan Programs" button): a new thread runs _scan_worker
StartScan(w) ==
    /\ workers[w].op = "idle"
    /\ \E out \in GuiScanOutputs :
           workers' = [workers EXCEPT ![w] = ScanWorker(out)]
    /\ UNCHANGED <<ivars, dvars, cvars, guiPrograms>>

\* _check_updates_worker enters patch_manager.check_updates, which scans
\* first if the PatchManager has no programs
BeginCheck(w) ==
    IF pmPrograms = <<>>
    THEN \E out \in GuiScanOutputs :
             \E scanned \in {ScanInstalledPrograms(programs, out)} :
                 \E answers \in GuiAnswerLists(scanned) :
                     workers' = [workers EXCEPT
                                    ![w] = CheckWorker(TRUE, out, scanned, answers)]
    ELSE \E answers \in GuiAnswerLists(pmPrograms) :
             workers' = [workers EXCEPT
                            ![w] = CheckWorker(FALSE, scanOut, pmPrograms, answers)]

\* check_updates (the "Check Updates" button): nothing without programs,
\* else a new thread runs _check_updates_worker
StartCheck(w) ==
    /\ workers[w].op = "idle"
    /\ guiPrograms # <<>>
    /\ BeginCheck(w)
    /\ UNCHANGED <<ivars, dvars, cvars, guiPrograms>>

\* _update_worker enters patch_manager.update_program(Head(names)), which
\* scans first if the PatchManager has no programs
BeginUpdate(w, names) ==
    IF pmPrograms = <<>>
    THEN \E out \in GuiScanOutputs :
             \E scanned \in {ScanInstalledPrograms(programs, out)} :
                 \E inp \in GuiUpdateInputs(scanned, Head(names)) :
                     workers' = [workers EXCEPT
                         ![w] = UpdateWorker(Head(names), TRUE, out, scanned, inp,
                                             Tail(names))]
    ELSE \E inp \in GuiUpdateInputs(pmPrograms, Head(names)) :
             workers' = [workers EXCEPT
                 ![w] = UpdateWorker(Head(names), FALSE, scanOut, pmPrograms, inp,
                                     Tail(names))]

\* The programs update_all and update_selected can hand to _update_worker:
\* programs of the GUI's list with an update, all of them or the selected
\* ones.
Selections(progs) ==
    {SelectSeq(progs, LAMBDA program : program.update_available /\ program.name \in S) :
        S \in SUBSET {progs[k].name : k \in DOMAIN progs}} \ {<<>>}

\* update_all and update_selected (the "Update All" and "Update Selected"
\* buttons), the user confirming: a new thread runs _update_worker
StartUpdate(w) ==
    /\ workers[w].op = "idle"
    /\ \E sel \in Selections(guiPrograms) :
           BeginUpdate(w, [k \in DOMAIN sel |-> sel[k].name])
    /\ UNCHANGED <<ivars, dvars, cvars, guiPrograms>>

\* subprocess.run of the worker's PatchManager call starts the process of the
\* next tool
WorkerSpawn(w) ==
    /\ workers[w].tools # <<>>
    /\ ~workers[w].running
    /\ workers' = [workers EXCEPT ![w].running = TRUE]
    /\ UNCHANGED <<ivars, dvars, cvars, guiPrograms>>

\* The process ends (or is killed at its timeout) and subprocess.run returns.
WorkerExit(w) ==
    /\ workers[w].running
    /\ workers' = [workers EXCEPT ![w].running = FALSE, ![w].tools = Tail(@)]
    /\ UNCHANGED <<ivars, dvars, cvars, guiPrograms>>

\* The call of a worker has run all its processes.
CallDone(w, op) ==
    /\ workers[w].op = op
    /\ workers[w].tools = <<>>
    /\ ~workers[w].running

\* _initial_scan_worker, _scan_worker: scan_programs returns and its list is
\* assigned to self.programs; the thread ends
ScanEnd(w) ==
    /\ CallDone(w, "scan")
    /\ ScanEffect(workers[w].plan.out)
    /\ guiPrograms' = pmPrograms'
    /\ workers' = [workers EXCEPT ![w] = IdleWorker]
    /\ UNCHANGED <<checkCfg, ivars>>

\* _check_updates_worker: check_updates returns, self.programs =
\* self.patch_manager.programs; the thread ends
CheckEnd(w) ==
    /\ CallDone(w, "check")
    /\ CheckEffect(workers[w].plan.scanned, workers[w].plan.out,
                   workers[w].plan.list, workers[w].plan.inp.answers)
    /\ guiPrograms' = pmPrograms'
    /\ workers' = [workers EXCEPT ![w] = IdleWorker]
    /\ UNCHANGED <<checkCfg, ivars>>

\* _update_worker: update_program returns or raises, the exception being
\* caught in the loop
UpdateCallEnd(w) ==
    /\ CallDone(w, "update")
    /\ UpdateEffect(workers[w].plan.name, workers[w].plan.scanned, workers[w].plan.out,
                    workers[w].plan.list, workers[w].plan.inp)
    /\ workers' = [workers EXCEPT ![w].op = "loop", ![w].plan = NoPlan]
    /\ UNCHANGED <<checkCfg, ivars, guiPrograms>>

\* _update_worker: the loop goes on to the next program
UpdateNext(w) ==
    /\ workers[w].op = "loop"
    /\ workers[w].todo # <<>>
    /\ BeginUpdate(w, workers[w].todo)
    /\ UNCHANGED <<ivars, dvars, cvars, guiPrograms>>

\* _update_worker: the loop is over and root.after(0, self.check_updates)
\* has the main thread call check_updates; the thread ends
UpdateEnd(w) ==
    /\ workers[w].op = "loop"
    /\ workers[w].todo = <<>>
    /\ IF guiPrograms = <<>>
       THEN workers' = [workers EXCEPT ![w] = IdleWorker]
       ELSE BeginCheck(w)
    /\ UNCHANGED <<ivars, dvars, cvars, guiPrograms>>

NextGui ==
    \E w \in Workers :
        \/ StartScan(w)
        \/ StartCheck(w)
        \/ StartUpdate(w)
        \/ WorkerSpawn(w)
        \/ WorkerExit(w)
        \/ ScanEnd(w)
        \/ CheckEnd(w)
        \/ UpdateCallEnd(w)
        \/ UpdateNext(w)
        \/ UpdateEnd(w)

SpecGui == InitGui /\ [][NextGui]_vars

-----------------------------------------------------------------------------
(* UpdateInstaller *)

\* (a bug: the filter is left out and every program is attempted)
ProgramsToUpdateUnfiltered(progs) == [k \in 1..Len(progs) |-> k]

\* programs_to_update = [p for p in progs if p.update_available]
ProgramsToUpdate(progs) ==
    LET RECURSIVE Filter(_)
        Filter(k) == IF k > Len(progs) THEN <<>>
                     ELSE IF progs[k].update_available
                          THEN <<k>> \o Filter(k + 1)
                          ELSE Filter(k + 1)
    IN  Filter(1)

\* The key under which a result is stored: results[program.name] = result
ResultKey(program) == program.name


\* (a bug: the guard lets one thread too many start)
SlotFreeOffByOne(activeThreads, maxConcurrent) == activeThreads <= maxConcurrent

\* The guard of the inner while loop: active_threads < self.max_concurrent
SlotFree(activeThreads, maxConcurrent) == activeThreads < maxConcurrent

\* (a bug: the reaping loop forgets to give the slot back)
ActiveAfterReapForgot(activeThreads) == activeThreads

\* line 124: active_threads -= 1
ActiveAfterReap(activeThreads) == activeThreads - 1

\* list.remove(x)
RECURSIVE ListRemove(_, _)
ListRemove(s, x) ==
    IF s = <<>> THEN <<>>
    ELSE IF Head(s) = x THEN Tail(s)
    ELSE <<Head(s)>> \o ListRemove(Tail(s), x)

\* The item states of the executor's state machine, read off an attempt.
ItemState(i) ==
    IF wpc[i] = "pending" THEN "Pending"
    ELSE IF wpc[i] = "running" THEN "Running"
    ELSE IF wres[i].success THEN "Succeeded"
    ELSE IF wres[i].error_message = "Update timed out" THEN "TimedOut"
    ELSE "Failed"

Items == 1..Len(inProgs)
Attempted == {toUpdate[k] : k \in 1..Len(toUpdate)}
Running == {i \in Items : wpc[i] = "running"}

\* The attempts that have called subprocess.run (lines 146 and 171), when the
\* attempt of input program i has returned.
SpawnedAfter(i) ==
    IF SpawnsProcess(inProgs[i]) THEN spawned \cup {i} ELSE spawned

\* ConfigManager.get(key_path, default)
ConfigGet(config, key, default) ==
    IF key \in DOMAIN config THEN config[key] ELSE default

\* `if self.config.get(key_path)`: get gives None for a key that the loaded
\* file does not have, and None counts as false
ConfigOn(config, key) == key \in DOMAIN config /\ config[key]

\* __init__: self.max_concurrent
MaxConcurrent == ConfigGet(cfg, "max_concurrent", 3)

\* (a bug: the sequential mode is never chosen)
NeverSequential == FALSE

\* line 51: if self.config.get('update_behavior.update_all_at_once')
Sequential == ConfigOn(cfg, "update_all_at_once")

\* The loaded configuration files of the model: the complete ones, and the
\* ones of limit 1 that lack general.create_backups or
\* update_behavior.update_all_at_once.
ConfigFiles ==
    [create_backups : BOOLEAN, update_all_at_once : BOOLEAN, max_concurrent : 0..MaxLimit]
        \cup [update_all_at_once : BOOLEAN, max_concurrent : {1}]
        \cup [create_backups : BOOLEAN, max_concurrent : {1}]
        \cup [max_concurrent : {1}]

-----------------------------------------------------------------------------
(* Inputs of one batch *)

ItemName(i) == <<"p", Digits[i]>>

\* The kinds of program a batch is made of, each with the answer of its tool.
InstallScenarios ==
    <<[source |-> "winget", package_id |-> <<"w">>, update_available |-> TRUE, ans |-> "exit0"],
      [source |-> "chocolatey", package_id |-> <<"c">>, update_available |-> TRUE, ans |-> "timeout"],
      [source |-> "winget", package_id |-> <<"w">>, update_available |-> FALSE, ans |-> "exit0"],
      [source |-> "chocolatey", package_id |-> <<"c">>, update_available |-> TRUE, ans |-> "exit0"],
      [source |-> "winget", package_id |-> <<"w">>, update_available |-> TRUE, ans |-> "nonzero"],
      [source |-> "registry", package_id |-> Empty, update_available |-> TRUE, ans |-> "exit0"],
      [source |-> "winget", package_id |-> <<"w">>, update_available |-> TRUE, ans |-> "exception"],
      [source |-> "winget", package_id |-> Empty, update_available |-> TRUE, ans |-> "exit0"]>>

\* The batches: every run of at most MaxItems consecutive kinds of the list
\* above, taken cyclically.
BatchInputs ==
    LET K == Len(InstallScenarios)
    IN  {[i \in 1..n |-> InstallScenarios[((p + i - 2) % K) + 1]] :
            n \in 0..MaxItems, p \in 1..K}

\* An UpdateInstaller under one of the configuration files, and the
\* arguments of one call of install_updates.
InitBatch ==
    /\ InitDetector
    /\ IdleChecker
    /\ IdleGui
    /\ cfg \in ConfigFiles
    /\ hasCb \in BOOLEAN
    /\ \E b \in BatchInputs :
         /\ inProgs = [i \in DOMAIN b |->
                Program(ItemName(i), <<"1">>, Empty, b[i].source, b[i].package_id,
                        b[i].update_available,
                        IF b[i].update_available THEN <<"2">> ELSE Empty)]
         /\ ans = [i \in DOMAIN b |-> b[i].ans]
         /\ wpc = [i \in DOMAIN b |-> "pending"]
         /\ wloc = [i \in DOMAIN b |-> 0]
         /\ wres = [i \in DOMAIN b |-> UpdateResult]
    /\ ipc = "call"
    /\ toUpdate = <<>>
    /\ completed = 0
    /\ results = <<>>
    /\ cbLog = <<>>
    /\ ended = <<>>
    /\ active = 0
    /\ pindex = 0
    /\ threads = <<>>
    /\ reapLeft = <<>>
    /\ backups = 0
    /\ backupOk = "none"
    /\ spawned = {}
    /\ returned = "none"

\* The batches whose progress callback, if one is passed, returns.
InitInstall == InitBatch /\ cbRaises = {}

\* The batches whose progress callback raises for one of the programs.
InitRaise == InitBatch /\ hasCb /\ cbRaises \in {{i} : i \in Items}

-----------------------------------------------------------------------------
(* install_updates: the calling thread *)

\* The mode the batch runs in (line 51).
FirstStep == IF Sequential THEN "seq" ELSE "spawn"

\* lines 40-51: filter, early return, choice of the mode
InstallUpdates ==
    /\ ipc = "call"
    /\ toUpdate' = ProgramsToUpdate(inProgs)
    /\ IF toUpdate' = <<>>
       THEN ipc' = "done" /\ returned' = <<>>
       ELSE /\ ipc' = IF ConfigOn(cfg, "create_backups") THEN "backup" ELSE FirstStep
            /\ returned' = returned
    /\ UNCHANGED <<otherThanInstaller, inputs, wpc, wloc, completed, results, cbLog, ended, active,
                   pindex, threads, reapLeft, wres, backups, backupOk, spawned>>

\* (a bug: the batch is given up when the backup cannot be written)
AfterBackupGivesUp(ok) == IF ok THEN FirstStep ELSE "ret"

\* lines 47-51: _create_backup has swallowed its exception, the mode is chosen
AfterBackup(ok) == FirstStep

\* lines 46-47 and _create_backup: one write attempt, whose failure is swallowed
CreateBackup ==
    /\ ipc = "backup"
    /\ backups' = backups + 1
    /\ \E ok \in BOOLEAN :
           /\ backupOk' = IF ok THEN "written" ELSE "failed"
           /\ ipc' = AfterBackup(ok)
    /\ UNCHANGED <<otherThanInstaller, inputs, toUpdate, wpc, wloc, completed, results, cbLog, ended,
                   active, pindex, threads, reapLeft, wres, spawned, returned>>

\* lines 53-54: the loop takes the next program and enters _install_single_update
SeqStart ==
    /\ ipc = "seq"
    /\ pindex < Len(toUpdate)
    /\ LET i == toUpdate[pindex + 1] IN
         /\ wpc' = [wpc EXCEPT ![i] = "running"]
         /\ wres' = [wres EXCEPT ![i].start_time = "set"]
    /\ ipc' = "seqrun"
    /\ UNCHANGED <<otherThanInstaller, inputs, toUpdate, wloc, completed, results, cbLog, ended, active,
                   pindex, threads, reapLeft, backups, backupOk, spawned, returned>>

\* lines 54-55: the install call returns and its result is stored
SeqReturn ==
    /\ ipc = "seqrun"
    /\ LET i == toUpdate[pindex + 1]
           r == InstallSingleUpdate(inProgs[i], ans[i])
       IN  /\ wres' = [wres EXCEPT ![i] = r]
           /\ results' = DictPut(results, ResultKey(inProgs[i]), r)
           /\ wpc' = [wpc EXCEPT ![i] = "cb"]
           /\ ended' = Append(ended, i)
           /\ spawned' = SpawnedAfter(i)
    /\ ipc' = "seqcb"
    /\ UNCHANGED <<otherThanInstaller, inputs, toUpdate, wloc, completed, cbLog, active, pindex, threads,
                   reapLeft, backups, backupOk, returned>>

\* One invocation progress_callback(name, success, completed, total), if a
\* callback was passed.
Invoke(log, i, done) ==
    IF hasCb
    THEN Append(log, [item |-> i, name |-> inProgs[i].name,
                      success |-> wres[i].success, completed |-> done,
                      total |-> Len(toUpdate)])
    ELSE log

\* The callback invoked for input program i raises.
CallbackRaises(i) == hasCb /\ i \in cbRaises

\* (a bug: the loop stops at the first failed item)
SeqLoopStopsOnFailure(done, success) ==
    IF success /\ done < Len(toUpdate) THEN "seq" ELSE "ret"

\* line 53: the for loop goes on to the next program whatever the result was
SeqLoop(done, success) ==
    IF done < Len(toUpdate) THEN "seq" ELSE "ret"

\* lines 56-57 and 53: the progress callback of the item, then the loop goes
\* on; an exception of the callback is caught nowhere in install_updates and
\* leaves it
SeqCallback ==
    /\ ipc = "seqcb"
    /\ LET i == toUpdate[pindex + 1] IN
         /\ cbLog' = Invoke(cbLog, i, Cardinality(DOMAIN results))
         /\ wpc' = [wpc EXCEPT ![i] = "dead"]
         /\ ended' = ListRemove(ended, i)
    /\ pindex' = pindex + 1
    /\ ipc' = IF CallbackRaises(toUpdate[pindex + 1]) THEN "raised"
              ELSE SeqLoop(pindex', wres[toUpdate[pindex + 1]].success)
    /\ UNCHANGED <<otherThanInstaller, inputs, toUpdate, wloc, completed, results, active, threads,
                   reapLeft, wres, backups, backupOk, spawned, returned>>

\* lines 111-117: the inner loop starts one more worker thread
StartThread ==
    /\ ipc = "spawn"
    /\ SlotFree(active, MaxConcurrent)
    /\ pindex < Len(toUpdate)
    /\ LET i == toUpdate[pindex + 1] IN
         /\ wpc' = [wpc EXCEPT ![i] = "running"]
         /\ wres' = [wres EXCEPT ![i].start_time = "set"]
         /\ threads' = Append(threads, i)
    /\ active' = active + 1
    /\ pindex' = pindex + 1
    /\ UNCHANGED <<otherThanInstaller, inputs, ipc, toUpdate, wloc, completed, results, cbLog, ended,
                   reapLeft, backups, backupOk, spawned, returned>>

\* lines 126 and 109: after the reaping loop, sleep and test the outer loop
AfterReap(activeThreads) ==
    IF pindex < Len(toUpdate) \/ activeThreads > 0 THEN "spawn" ELSE "join"

\* line 111 false, line 120: the reaping loop starts over the copy threads[:]
\* (with no thread to look at, the outer loop goes round at once)
StartReap ==
    /\ ipc = "spawn"
    /\ ~(SlotFree(active, MaxConcurrent) /\ pindex < Len(toUpdate))
    /\ reapLeft' = threads
    /\ ipc' = IF threads = <<>> THEN AfterReap(active) ELSE "reap"
    /\ UNCHANGED <<otherThanInstaller, inputs, toUpdate, wpc, wloc, completed, results, cbLog, ended,
                   active, pindex, threads, wres, backups, backupOk, spawned, returned>>

\* lines 120-124: one iteration of the reaping loop
ReapThread ==
    /\ ipc = "reap"
    /\ LET t == Head(reapLeft) IN
         IF wpc[t] = "dead"
         THEN threads' = ListRemove(threads, t) /\ active' = ActiveAfterReap(active)
         ELSE threads' = threads /\ active' = active
    /\ reapLeft' = Tail(reapLeft)
    /\ ipc' = IF reapLeft' = <<>> THEN AfterReap(active') ELSE "reap"
    /\ UNCHANGED <<otherThanInstaller, inputs, toUpdate, wpc, wloc, completed, results, cbLog, ended,
                   pindex, wres, backups, backupOk, spawned, returned>>

\* lines 129-130: thread.join() of every thread left in `threads`
JoinRemaining ==
    /\ ipc = "join"
    /\ \A k \in 1..Len(threads) : wpc[threads[k]] = "dead"
    /\ ipc' = "ret"
    /\ UNCHANGED <<otherThanInstaller, inputs, toUpdate, wpc, wloc, completed, results, cbLog, ended,
                   active, pindex, threads, reapLeft, wres, backups, backupOk, spawned, returned>>

\* lines 62-63 (and 132): _log_update_summary(results); return results
ReturnResults ==
    /\ ipc = "ret"
    /\ returned' = results
    /\ ipc' = "done"
    /\ UNCHANGED <<otherThanInstaller, inputs, toUpdate, wpc, wloc, completed, results, cbLog, ended,
                   active, pindex, threads, reapLeft, wres, backups, backupOk, spawned>>

-----------------------------------------------------------------------------
(* update_worker: the worker threads of the bounded-concurrent mode *)

\* (a bug: a successful install clears the program's update mark)
WorkerInstallClearsMark(i) ==
    /\ ~Sequential
    /\ wpc[i] = "running"
    /\ LET r == InstallSingleUpdate(inProgs[i], ans[i])
       IN  /\ wres' = [wres EXCEPT ![i] = r]
           /\ results' = DictPut(results, ResultKey(inProgs[i]), r)
           /\ inProgs' = IF r.success
                         THEN [inProgs EXCEPT ![i].update_available = FALSE,
                                              ![i].available_version = Empty]
                         ELSE inProgs
    /\ ended' = Append(ended, i)
    /\ spawned' = SpawnedAfter(i)
    /\ wpc' = [wpc EXCEPT ![i] = "load"]
    /\ UNCHANGED <<otherThanInstaller, cfg, ans, hasCb, cbRaises, ipc, toUpdate, wloc, completed, cbLog,
                   active, pindex, threads, reapLeft, backups, backupOk, returned>>

\* lines 97-98: the install call returns and its result is stored
WorkerInstall(i) ==
    /\ ~Sequential
    /\ wpc[i] = "running"
    /\ LET r == InstallSingleUpdate(inProgs[i], ans[i])
       IN  /\ wres' = [wres EXCEPT ![i] = r]
           /\ results' = DictPut(results, ResultKey(inProgs[i]), r)
    /\ ended' = Append(ended, i)
    /\ spawned' = SpawnedAfter(i)
    /\ wpc' = [wpc EXCEPT ![i] = "load"]
    /\ UNCHANGED <<otherThanInstaller, inputs, ipc, toUpdate, wloc, completed, cbLog, active, pindex,
                   threads, reapLeft, backups, backupOk, returned>>

\* line 99, first half: completed += 1 loads the counter
WorkerLoad(i) ==
    /\ ~Sequential
    /\ wpc[i] = "load"
    /\ wloc' = [wloc EXCEPT ![i] = completed]
    /\ wpc' = [wpc EXCEPT ![i] = "inc"]
    /\ UNCHANGED <<otherThanInstaller, inputs, ipc, toUpdate, completed, results, cbLog, ended, active,
                   pindex, threads, reapLeft, wres, backups, backupOk, spawned, returned>>

\* line 99, second half: completed += 1 stores the sum
WorkerStore(i) ==
    /\ ~Sequential
    /\ wpc[i] = "inc"
    /\ completed' = wloc[i] + 1
    /\ wpc' = [wpc EXCEPT ![i] = "cb"]
    /\ UNCHANGED <<otherThanInstaller, inputs, ipc, toUpdate, wloc, results, cbLog, ended, active,
                   pindex, threads, reapLeft, wres, backups, backupOk, spawned, returned>>

\* (a bug: the worker clears the output of the result it has stored)
WorkerCallbackClearsOutput(i) ==
    /\ ~Sequential
    /\ wpc[i] = "cb"
    /\ cbLog' = Invoke(cbLog, i, completed)
    /\ ended' = ListRemove(ended, i)
    /\ wpc' = [wpc EXCEPT ![i] = "dead"]
    /\ wres' = [wres EXCEPT ![i].output = ""]
    /\ UNCHANGED <<otherThanInstaller, inputs, ipc, toUpdate, wloc, completed, results, active, pindex,
                   threads, reapLeft, backups, backupOk, spawned, returned>>

\* lines 101-102: the progress callback; the thread ends when it returns, and
\* as well when it raises (the call is the last statement of update_worker)
WorkerCallback(i) ==
    /\ ~Sequential
    /\ wpc[i] = "cb"
    /\ cbLog' = Invoke(cbLog, i, completed)
    /\ ended' = ListRemove(ended, i)
    /\ wpc' = [wpc EXCEPT ![i] = "dead"]
    /\ UNCHANGED <<otherThanInstaller, inputs, ipc, toUpdate, wloc, completed, results, active, pindex,
                   threads, reapLeft, wres, backups, backupOk, spawned, returned>>

MainStep ==
    \/ InstallUpdates
    \/ CreateBackup
    \/ SeqStart
    \/ SeqReturn
    \/ SeqCallback
    \/ StartThread
    \/ StartReap
    \/ ReapThread
    \/ JoinRemaining
    \/ ReturnResults

WorkerStep(i) ==
    \/ WorkerInstall(i)
    \/ WorkerLoad(i)
    \/ WorkerStore(i)
    \/ WorkerCallback(i)

NextInstall ==
    \/ MainStep
    \/ \E i \in Items : WorkerStep(i)

Spec == InitInstall /\ [][NextInstall]_vars

SpecRaise == InitRaise /\ [][NextInstall]_vars

\* The scheduling the threads of one batch get: the calling thread and every
\* started worker keep running, and every install call returns or times out.
FairSpec ==
    /\ InitInstall
    /\ [][NextInstall]_vars
    /\ WF_vars(MainStep)
    /\ \A i \in 1..MaxItems : WF_vars(i \in Items /\ WorkerStep(i))

-----------------------------------------------------------------------------
(* The detector's claims *)

Scanned == scanOut # NoOutput

\* The records each source reports when it is scanned on its own.
PerSourceRecords(out) ==
    Range(ScanWinget(<<>>, out.winget))
        \cup Range(ScanRegistry(<<>>, out.registry))
        \cup Range(ScanChocolatey(<<>>, out.chocolatey))

\* At most one record of the inventory per lower-cased, trimmed name.
OnePerNormalizedName ==
    \A i, j \in DOMAIN programs :
        NormalizedName(programs[i].name) = NormalizedName(programs[j].name) => i = j

\* The record kept for a name is of the highest-priority source among the
\* scanned records of that name.
HighestPriorityKept ==
    \A i \in DOMAIN programs : \A q \in PerSourceRecords(scanOut) :
        NormalizedName(q.name) = NormalizedName(programs[i].name)
            => Priority(programs[i].source) <= Priority(q.source)

\* C6: whatever the three sources report, the inventory that
\* scan_installed_programs returns has at most one record per lower-cased,
\* trimmed name, and that record comes from the highest-priority source
\* (winget, then chocolatey, then registry) among all the scanned records of
\* that name.
C6_OnePerNameHighestPriority ==
    Scanned => OnePerNormalizedName /\ HighestPriorityKept

\* C7: _deduplicate_programs applied to a reconciled inventory gives the same
\* records in the same order; the inventory after a scan is the one a new
\* detector gets from the same tool outputs (nothing of the scan before is
\* left), and a scan that gets the same outputs as the scan before it leaves
\* the inventory as it was.
C7_ReconcileIdempotent ==
    /\ [](Scanned => /\ DeduplicatePrograms(programs) = programs
                     /\ programs = ScanInstalledPrograms(<<>>, scanOut))
    /\ [][scanOut' = scanOut => programs' = programs]_vars

\* A second scan with the outputs of the first, in which reconciliation had
\* records of one name from two sources to choose from.
C7_Witness ==
    /\ sameAsBefore
    /\ Len(programs) >= 2
    /\ Len(ScannedList(<<>>, scanOut)) > Len(programs)

-----------------------------------------------------------------------------
(* The checker's claims *)

\* The exclusion filter matches the k-th program of the last check.
ExcludedAt(k) ==
    IsProgramExcluded(checkCfg.exclusions, checkIn[k].name, checkIn[k].publisher)

\* A check was made for the k-th program of the last check.
CheckedAt(k) == \E c \in DOMAIN checkLog : checkLog[c].name = checkIn[k].name

\* C8: check_for_updates makes no adapter check and no fallback check for a
\* program that the exclusion filter matches.
C8_ExcludedNeverChecked ==
    \A k \in DOMAIN checkIn : ExcludedAt(k) => ~CheckedAt(k)

\* A call that skipped an excluded program and made a check for another.
C8_Witness ==
    \E k, m \in DOMAIN checkIn :
        /\ ExcludedAt(k) /\ ~CheckedAt(k)
        /\ ~ExcludedAt(m) /\ CheckedAt(m)

Names(progs) == {progs[k].name : k \in DOMAIN progs}

\* C9: the list check_for_updates returns has every program it was given,
\* the excluded ones too, so PatchManager holds the same programs after
\* check_updates as before.
C9_SameMembers ==
    [][CheckUpdates => Names(pmPrograms') = Names(checkIn')]_vars

Fresh(program) ==
    ~program.update_available /\ program.available_version = Empty

\* Neither the adapter of the program's source nor the custom fallback is
\* enabled.
NothingEnabledFor(program) ==
    /\ ~(program.source = "winget" /\ checkCfg.winget)
    /\ ~(program.source = "chocolatey" /\ checkCfg.chocolatey)
    /\ ~checkCfg.custom

\* C10: a freshly scanned program that the exclusion filter matches, or for
\* which neither the adapter of its source nor the custom fallback is
\* enabled, has update_available false and available_version "" after
\* check_for_updates.
C10_UntouchedWhenNotChecked ==
    \A k \in DOMAIN checkIn :
        Fresh(checkIn[k]) /\ (ExcludedAt(k) \/ NothingEnabledFor(checkIn[k]))
            => Fresh(checkAfter[k])

\* A call on fresh programs of which one was excluded, one had nothing
\* enabled for it, and one got an update.
C10_Witness ==
    \E k, m, n \in DOMAIN checkIn :
        /\ Fresh(checkIn[k]) /\ ExcludedAt(k) /\ Fresh(checkAfter[k])
        /\ Fresh(checkIn[m]) /\ ~ExcludedAt(m) /\ NothingEnabledFor(checkIn[m])
        /\ Fresh(checkAfter[m])
        /\ Fresh(checkIn[n]) /\ ~Fresh(checkAfter[n])

\* The check made for the k-th program of the last call ran the tool of
\* the winget or of the chocolatey adapter.
AdapterRanAt(k) ==
    /\ checkIn[k].package_id # Empty
    /\ \E c \in DOMAIN checkLog :
           /\ checkLog[c].name = checkIn[k].name
           /\ checkLog[c].check \in {"winget", "chocolatey"}

\* C11: when the tool of the winget or chocolatey adapter reports that an
\* upgrade is available and no version number can be taken from its output,
\* the check sets update_available to true and available_version to
\* "Unknown".
C11_UnknownVersionStillAvailable ==
    \A k \in DOMAIN checkIn :
        AdapterRanAt(k) /\ checkAns[k] = "noversion"
            => /\ checkAfter[k].update_available
               /\ checkAfter[k].available_version = Unknown

\* A fresh winget program and a fresh chocolatey program for which an
\* upgrade without version number was reported.
C11_Witness ==
    \E k, m \in DOMAIN checkIn :
        /\ checkIn[k].source = "winget" /\ checkIn[m].source = "chocolatey"
        /\ \A j \in {k, m} :
               /\ Fresh(checkIn[j]) /\ AdapterRanAt(j) /\ checkAns[j] = "noversion"
               /\ checkAfter[j].available_version = Unknown

\* A tool was run for the k-th program of the last call.
ToolRanAt(k) ==
    \/ AdapterRanAt(k)
    \/ /\ \E c \in DOMAIN checkLog :
              checkLog[c].name = checkIn[k].name /\ checkLog[c].check = "custom"
       /\ \E name \in CustomCheckers : Contains(Lower(checkIn[k].name), name)

\* The check set update_available of the k-th program.
BecameAvailableAt(k) ==
    ~checkIn[k].update_available /\ checkAfter[k].update_available

\* C12: on every check path (winget adapter, chocolatey adapter, fallback by
\* name), when a version number is taken from the tool's report and the
\* installed version parses, update_available is set only if the reported
\* version is greater than the installed one; an equal one leaves it false.
C12_OnlyStrictlyNewer ==
    \A k \in DOMAIN checkIn :
        /\ ToolRanAt(k) /\ checkAns[k] = "version"
        /\ ParseVersion(checkIn[k].version) # -1
        /\ BecameAvailableAt(k)
        => ParseVersion(VerNew) > ParseVersion(checkIn[k].version)

\* The same on the fallback path alone.
FallbackOnlyStrictlyNewer ==
    \A k \in DOMAIN checkIn :
        /\ ToolRanAt(k) /\ ~AdapterRanAt(k) /\ checkAns[k] = "version"
        /\ ParseVersion(checkIn[k].version) # -1
        /\ BecameAvailableAt(k)
        => ParseVersion(VerNew) > ParseVersion(checkIn[k].version)

\* C13: when the installed version (or the reported one) does not parse as a
\* version, no numeric comparison is made and the tool's report is taken as
\* it is: if the tool reported a version, update_available becomes true.
C13_UnparsableTakesToolSignal ==
    \A k \in DOMAIN checkIn :
        /\ ToolRanAt(k) /\ checkAns[k] = "version"
        /\ ParseVersion(checkIn[k].version) = -1
        => checkAfter[k].update_available

\* The objects of the last call as they would be had the tool of the k-th
\* program reported nothing.
AfterWithout(k) ==
    CheckForUpdates(checkCfg, checkIn, [checkAns EXCEPT ![k] = "nothing"]).after

\* C14: when the check of one program raises or times out, check_for_updates
\* goes on: that program keeps update_available false, and every other
\* program of the list is checked and gets the result it would have had
\* without the failure.
C14_CheckFailureIsolated ==
    \A k \in DOMAIN checkIn :
        ToolRanAt(k) /\ checkAns[k] = "timeout"
            => /\ Len(checkAfter) = Len(checkIn)
               /\ checkAfter[k] = checkIn[k]
               /\ \A m \in DOMAIN checkIn \ {k} : checkAfter[m] = AfterWithout(k)[m]

\* The winget check of a fresh program timed out and a later program of the
\* list got its update.
C14_Witness ==
    \E k, m \in DOMAIN checkIn :
        /\ k < m
        /\ AdapterRanAt(k) /\ checkIn[k].source = "winget" /\ checkAns[k] = "timeout"
        /\ Fresh(checkIn[k]) /\ Fresh(checkAfter[k])
        /\ ToolRanAt(m) /\ BecameAvailableAt(m)

\* C16: for every adapter operation a nonzero exit code, a timeout or a
\* missing executable of the tool is a soft failure: a scan whose tool fails
\* adds no record of that source, and an update check whose tool fails
\* leaves the program's update_available and available_version as they were.
C16_SoftFailure ==
    /\ scanOut.winget.status # "exit0"
           => \A i \in DOMAIN programs : programs[i].source # "winget"
    /\ scanOut.chocolatey.status # "exit0"
           => \A i \in DOMAIN programs : programs[i].source # "chocolatey"
    /\ (\A r \in DOMAIN scanOut.registry : scanOut.registry[r].status # "exit0")
           => \A i \in DOMAIN programs : programs[i].source # "registry"
    /\ \A k \in DOMAIN checkIn :
           ToolRanAt(k) /\ checkAns[k] \in {"timeout", "nonzero"}
               => /\ checkAfter[k].update_available = checkIn[k].update_available
                  /\ checkAfter[k].available_version = checkIn[k].available_version

\* The part of C16 on scans.
ScanSoftFailure ==
    /\ scanOut.winget.status # "exit0"
           => \A i \in DOMAIN programs : programs[i].source # "winget"
    /\ scanOut.chocolatey.status # "exit0"
           => \A i \in DOMAIN programs : programs[i].source # "chocolatey"
    /\ (\A r \in DOMAIN scanOut.registry : scanOut.registry[r].status # "exit0")
           => \A i \in DOMAIN programs : programs[i].source # "registry"

\* The tools whose executable the last scan did not find.
NotFoundTools ==
    {t \in {"winget", "choco"} :
        (IF t = "winget" THEN scanOut.winget ELSE scanOut.chocolatey).status = "notfound"}

\* C17: once an adapter has seen that the executable of its tool is not
\* found, no later scan or check runs that tool again (stated for the
\* operation that follows the scan that did not find it).
C17_NotFoundCached ==
    [][NotFoundTools \cap toolRuns' = {}]_vars

-----------------------------------------------------------------------------
(* The installer's claims *)

Updatable == {i \in Items : inProgs[i].update_available}
Terminal == {"Succeeded", "Failed", "TimedOut"}
Done == ipc = "done"

\* The terminal state an attempt of item i has when it is the only item: it
\* succeeds when its tool is run and exits with 0, times out when the tool
\* is run and does not answer in time, and fails otherwise.
AloneState(i) ==
    IF ~SpawnsProcess(inProgs[i]) THEN "Failed"
    ELSE IF ans[i] = "exit0" THEN "Succeeded"
    ELSE IF ans[i] = "timeout" THEN "TimedOut"
    ELSE "Failed"

\* C1: in bounded-concurrent mode with a limit of at least 1, the number of
\* items in Running state (worker started, install not yet returned) never
\* exceeds the limit.
C1_ConcurrencyBound ==
    (~Sequential /\ MaxConcurrent >= 1)
        => Cardinality(Running) <= MaxConcurrent

\* The limit of 2 is reached while a further item waits for a slot.
C1_Witness ==
    /\ ~Sequential
    /\ MaxConcurrent = 2
    /\ Cardinality(Running) = 2
    /\ pindex < Len(toUpdate)

\* Every attempted item is in a terminal state and no worker is alive.
AllSettled ==
    /\ \A i \in Updatable : wpc[i] = "dead" /\ ItemState(i) \in Terminal
    /\ \A i \in Items : wpc[i] \in {"pending", "dead"}

\* C2: with a limit of at least 1 (or in sequential mode), when every install
\* call returns or times out, install_updates eventually returns; and when it
\* has returned, every attempted item is in a terminal state and no worker
\* is still running.
C2_Terminates ==
    /\ (Sequential \/ MaxConcurrent >= 1) => <>Done
    /\ [](Done => AllSettled)

\* A concurrent batch of three attempted items has returned, one of them
\* timed out.
C2_Witness ==
    /\ Done
    /\ ~Sequential
    /\ Cardinality(Updatable) = 3
    /\ \E i \in Updatable : ItemState(i) = "TimedOut"

\* C3: when install_updates has returned and an attempted item failed
\* (nonzero exit, timeout, exception), every other attempted item was
\* started, is in the terminal state it has alone, and has its entry in the
\* returned map, in both modes.
C3_FailureIsolated ==
    Done =>
        \A j \in Updatable :
            ItemState(j) \in {"Failed", "TimedOut"} =>
                \A i \in Updatable \ {j} :
                    /\ wres[i].start_time = "set"
                    /\ ItemState(i) = AloneState(i)
                    /\ inProgs[i].name \in DOMAIN returned
                    /\ returned[inProgs[i].name] = wres[i]

\* A sequential batch has returned in which an item timed out and a later
\* item succeeded.
C3_Witness ==
    /\ Done
    /\ Sequential
    /\ \E j, i \in Updatable :
         /\ j < i
         /\ ItemState(j) = "TimedOut"
         /\ ItemState(i) = "Succeeded"

\* C4: the returned map has exactly one entry for every input program whose
\* update_available is true; a program whose update_available is false is
\* never attempted and never in the map; an input without an updatable
\* program returns the empty map without backup, install or callback.
C4_MapCoversAttempted ==
    /\ \A i \in Items \ Updatable :
         /\ wpc[i] = "pending"
         /\ wres[i] = UpdateResult
         /\ inProgs[i].name \notin DOMAIN results
    /\ Done =>
         /\ DOMAIN returned = {inProgs[i].name : i \in Updatable}
         /\ Cardinality(DOMAIN returned) = Cardinality(Updatable)
         /\ Updatable = {} =>
              /\ returned = <<>>
              /\ backups = 0
              /\ cbLog = <<>>
              /\ \A i \in Items : wpc[i] = "pending"

\* A batch of two updatable programs and one that is not has returned.
C4_Witness ==
    /\ Done
    /\ Cardinality(Updatable) = 2
    /\ Cardinality(Items \ Updatable) = 1
    /\ Cardinality(DOMAIN returned) = 2

\* The number of callback invocations made for item i.
Invocations(i) == Cardinality({k \in 1..Len(cbLog) : cbLog[k].item = i})

\* The callback of an item is invoked at most once, exactly once by the time
\* install_updates returns, and only with the item's end_time set.
CallbackOncePerItem ==
    /\ hasCb =>
         /\ \A i \in Items : Invocations(i) <= 1
         /\ \A k \in 1..Len(cbLog) :
              /\ cbLog[k].item \in Updatable
              /\ wres[cbLog[k].item].end_time = "set"
              /\ cbLog[k].success = wres[cbLog[k].item].success
         /\ Done => \A i \in Updatable : Invocations(i) = 1

\* Every invocation is for the item whose end_time was set first among the
\* items not yet reported.
CallbackInCompletionOrder ==
    [][\A i \in Items :
          (hasCb /\ Len(cbLog') > Len(cbLog) /\ cbLog'[Len(cbLog')].item = i)
              => Head(ended) = i]_vars

\* C5: with a progress callback, the callback is invoked exactly once per
\* attempted item, only after the item's terminal state is recorded, and the
\* invocations occur in completion order.
C5_CallbackOnceInOrder ==
    []CallbackOncePerItem /\ CallbackInCompletionOrder

\* The calling thread is past the backup step of a batch that has programs to
\* update.
PastBackupStep == toUpdate # <<>> /\ ipc \notin {"call", "backup"}

\* C15: with backups enabled and at least one program to update,
\* install_updates makes exactly one backup write attempt per batch, which
\* has ended before any item is Running; and when the write fails, the same
\* items are attempted with the same outcomes as when it succeeds.
C15_OneBackupBeforeItems ==
    /\ ConfigOn(cfg, "create_backups") /\ PastBackupStep
           => backups = 1 /\ backupOk # "none"
    /\ ConfigOn(cfg, "create_backups") /\ (\E i \in Items : wpc[i] # "pending")
           => backups = 1 /\ backupOk # "none"
    /\ backups <= 1
    /\ Done /\ backupOk = "failed"
           => /\ Attempted = Updatable
              /\ \A i \in Updatable : ItemState(i) = AloneState(i)

\* A batch whose backup could not be written has returned with an item
\* updated.
C15_Witness ==
    /\ Done /\ backupOk = "failed" /\ backups = 1
    /\ \E i \in Attempted : ItemState(i) = "Succeeded"

\* C18: with a concurrency limit <= 0, install_updates reports the violation
\* to its caller before any work starts: no backup is written and no item
\* leaves Pending.
C18_InvalidLimitRejected ==
    MaxConcurrent <= 0
        => /\ backups = 0
           /\ \A i \in Items : wpc[i] = "pending"

\* The same call returns control to its caller.
InvalidLimitReturns == MaxConcurrent <= 0 => <>Done

\* C19: in sequential mode at most one item is Running at any time, and the
\* items are attempted in input order: an item enters Running only after the
\* item before it has reached its terminal state and its progress callback
\* has returned.
C19_SequentialInOrder ==
    ConfigOn(cfg, "update_all_at_once")
        => /\ Cardinality(Running) <= 1
           /\ \A k \in 1..(Len(toUpdate) - 1) :
                  wpc[toUpdate[k + 1]] # "pending"
                      => /\ wpc[toUpdate[k]] = "dead"
                         /\ ItemState(toUpdate[k]) \in Terminal
                         /\ hasCb => \E c \in DOMAIN cbLog : cbLog[c].item = toUpdate[k]
           /\ \A k \in 1..(Len(toUpdate) - 1) : toUpdate[k] < toUpdate[k + 1]

\* The third item of a sequential batch is Running after the callbacks of the
\* first two.
C19_Witness ==
    /\ ConfigOn(cfg, "update_all_at_once") /\ hasCb
    /\ Len(toUpdate) = 3
    /\ wpc[toUpdate[3]] = "running"
    /\ Len(cbLog) = 2

\* The built-in defaults of the keys the installer looks up.
DefaultConfig ==
    [create_backups |-> TRUE, update_all_at_once |-> FALSE, max_concurrent |-> 3]

\* The loaded file completed with the default of every key it lacks.
WithDefaults(config) ==
    [key \in DOMAIN DefaultConfig |-> ConfigGet(config, key, DefaultConfig[key])]

\* C20: a lookup of a key that the loaded configuration file lacks gives the
\* key's built-in default, so with an incomplete file install_updates does
\* what it does with the defaults of the missing keys: it writes the backup
\* exactly when create_backups (default true) is on, and is sequential
\* exactly when update_all_at_once (default false) is on.
C20_MissingKeysDefault ==
    PastBackupStep
        => /\ backups = (IF WithDefaults(cfg).create_backups THEN 1 ELSE 0)
           /\ Sequential = WithDefaults(cfg).update_all_at_once

\* The steps of the state machine of item i: it stays in its state, goes from
\* Pending to Running, or from Running to a terminal state.
ItemMachineStep(i) ==
    \/ ItemState(i)' = ItemState(i)
    \/ ItemState(i) = "Pending" /\ ItemState(i)' = "Running"
    \/ ItemState(i) = "Running" /\ ItemState(i)' \in Terminal

\* C22: each attempted item follows Pending -> Running -> one of Succeeded,
\* Failed, TimedOut: it enters Running at most once, has exactly one terminal
\* state when install_updates has returned, never leaves it, and its
\* UpdateResult is not modified after end_time has been set; end_time is set
\* exactly in the terminal states.
C22_ItemStateMachine ==
    /\ [][\A i \in Items :
             /\ ItemMachineStep(i)
             /\ wres[i].end_time = "set" => wres'[i] = wres[i]]_vars
    /\ [](\A i \in Items : wres[i].end_time = "set" <=> ItemState(i) \in Terminal)
    /\ [](Done => \A i \in Attempted : ItemState(i) \in Terminal)

\* A concurrent batch with a callback has returned after one item succeeded,
\* one timed out and one failed.
C22_Witness ==
    /\ Done /\ ~Sequential /\ hasCb
    /\ \E i, j, k \in Attempted :
         /\ ItemState(i) = "Succeeded"
         /\ ItemState(j) = "TimedOut"
         /\ ItemState(k) = "Failed"

\* The completed counts passed to the callback so far are 1, 2, ... in the
\* order of the invocations.
CountsInSequence == \A k \in 1..Len(cbLog) : cbLog[k].completed = k

\* C25: in bounded-concurrent mode, under every interleaving of the worker
\* threads, the completed counts passed to the progress callback over one
\* batch are exactly 1, 2, ..., total, each passed exactly once, so total is
\* reported exactly once and by the last callback.
C25_CompletedCountsExact ==
    (~Sequential /\ hasCb)
        => /\ CountsInSequence
           /\ Done => Len(cbLog) = Len(toUpdate)

\* The same in sequential mode, where the count is len(results).
SequentialCountsExact ==
    (Sequential /\ hasCb)
        => /\ CountsInSequence
           /\ Done => Len(cbLog) = Len(toUpdate)

\* C28: the installer never modifies the Program it installs: no step of
\* install_updates changes a field of a program, so after
\* _install_single_update has returned, with success or failure, the program
\* has the version, update_available and available_version it had, and a
\* successfully updated program is still marked as having an update.
C28_InstallerLeavesProgram ==
    /\ [][inProgs' = inProgs]_vars
    /\ [](\A i \in Items :
             ItemState(i) \in Terminal
                 => /\ inProgs[i].update_available
                    /\ inProgs[i].available_version = <<"2">>
                    /\ inProgs[i].version = <<"1">>)

\* A batch has returned in which one program was updated and another failed.
C28_Witness ==
    /\ Done
    /\ \E i, j \in Attempted :
         /\ ItemState(i) = "Succeeded" /\ inProgs[i].update_available
         /\ ItemState(j) = "Failed" /\ inProgs[j].update_available

\* The input programs an install attempt can run a tool for.
Installable ==
    {i \in Items : /\ inProgs[i].source \in {"winget", "chocolatey"}
                   /\ inProgs[i].package_id # Empty}

\* C30: an install attempt spawns an external process only for a program
\* whose source is winget or chocolatey and whose package_id is not empty;
\* the attempt of every other program ends Failed with a non-empty
\* error_message and without a process, so a registry program can never
\* reach Succeeded.
C30_SpawnOnlyWithPackage ==
    /\ spawned \subseteq Installable
    /\ \A i \in Items \ Installable :
           ItemState(i) \notin {"Pending", "Running"}
               => /\ ItemState(i) = "Failed"
                  /\ wres[i].error_message # ""
                  /\ wres[i].output = ""
    /\ \A i \in Items : inProgs[i].source = "registry" => ItemState(i) # "Succeeded"
    /\ \A i \in Installable : ItemState(i) \in Terminal => i \in spawned

\* A batch has returned in which a registry program and a winget program
\* without package id have failed without a process, and a tool was run for a
\* third program.
C30_Witness ==
    /\ Done
    /\ \E i, j \in Attempted \ spawned :
         /\ inProgs[i].source = "registry"
         /\ inProgs[j].source = "winget" /\ inProgs[j].package_id = Empty
         /\ ItemState(i) = "Failed" /\ ItemState(j) = "Failed"
    /\ spawned # {}

\* install_updates has returned or has been left by an exception.
Left == ipc \in {"done", "raised"}

\* Every program to update has been attempted and is in the result map.
AllRecorded ==
    \A i \in Updatable :
        /\ ItemState(i) \in Terminal
        /\ inProgs[i].name \in DOMAIN results

\* C26: a progress callback that raises for one item does not prevent the
\* remaining items of the batch from being attempted and recorded in the
\* result map, in sequential mode as well as in bounded-concurrent mode.
C26_RaisingCallbackIsolated == (cbRaises # {} /\ Left) => AllRecorded

\* The same in bounded-concurrent mode alone.
ConcurrentRaisingCallbackIsolated ==
    (cbRaises # {} /\ ~Sequential /\ Left) => AllRecorded

\* The checks the last call of check_for_updates made for its k-th program.
ChecksAt(k) ==
    {checkLog[c].check : c \in {d \in DOMAIN checkLog : checkLog[d].name = checkIn[k].name}}

\* The adapter of the program's source is enabled.
SourceEnabled(program) ==
    \/ program.source = "winget" /\ checkCfg.winget
    \/ program.source = "chocolatey" /\ checkCfg.chocolatey

\* The name holds a fragment of the table of the name-based check.
MatchesFragment(program) ==
    \E name \in CustomCheckers : Contains(Lower(program.name), name)

\* C23: for every program that is not excluded, check_for_updates makes the
\* check of the adapter of the program's source when that source is enabled,
\* and the name-based check when the source is disabled or has no adapter
\* (registry); in the name-based check a name that holds no fragment of the
\* table gets no update signal.
C23_DispatchBySource ==
    \A k \in DOMAIN checkIn :
        ~ExcludedAt(k)
            => /\ SourceEnabled(checkIn[k]) => ChecksAt(k) = {checkIn[k].source}
               /\ ~SourceEnabled(checkIn[k]) => ChecksAt(k) = {"custom"}
               /\ (~SourceEnabled(checkIn[k]) /\ ~MatchesFragment(checkIn[k]))
                      => checkAfter[k] = checkIn[k]

\* The same where update_sources.custom.enabled is on.
DispatchBySourceWithCustom ==
    checkCfg.custom => C23_DispatchBySource

\* With update_sources.custom.enabled off, no check is made for a program
\* whose source is disabled or has no adapter.
NoFallbackWithoutCustom ==
    \A k \in DOMAIN checkIn :
        (~checkCfg.custom /\ ~SourceEnabled(checkIn[k]))
            => ChecksAt(k) = {} /\ checkAfter[k] = checkIn[k]

\* available_version is not empty exactly when update_available is true.
VersionIffAvailable(program) ==
    (program.available_version # Empty) <=> program.update_available

\* C24: after any sequence of scan and check operations, every Program (of
\* the manager's list, of the detector's list, and of the list the last
\* check was given) has a non-empty available_version if and only if its
\* update_available is true.
C24_VersionIffAvailable ==
    /\ \A k \in DOMAIN pmPrograms : VersionIffAvailable(pmPrograms[k])
    /\ \A k \in DOMAIN programs : VersionIffAvailable(programs[k])
    /\ \A k \in DOMAIN checkAfter : VersionIffAvailable(checkAfter[k])

\* A check has left one program with a reported version, one with the
\* version "Unknown" and one without update.
C24_Witness ==
    \E k, m, n \in DOMAIN pmPrograms :
        /\ pmPrograms[k].update_available /\ pmPrograms[k].available_version = VerNew
        /\ pmPrograms[m].update_available /\ pmPrograms[m].available_version = Unknown
        /\ ~pmPrograms[n].update_available /\ pmPrograms[n].available_version = Empty

\* C27: a later check of the same Program objects reflects the latest tool
\* answer: a program whose update_available an earlier check has set and for
\* which the tool now reports no update has update_available false and
\* available_version "" after the later check.
C27_LaterCheckClearsUpdate ==
    \A k \in DOMAIN checkIn :
        (checkIn[k].update_available /\ ToolRanAt(k) /\ checkAns[k] = "nothing")
            => Fresh(checkAfter[k])

\* A later check replaces the version an earlier check has stored when the
\* tool reports an update again.
LaterCheckTakesNewReport ==
    \A k \in DOMAIN checkIn :
        (checkIn[k].update_available /\ AdapterRanAt(k) /\ checkAns[k] = "noversion")
            => checkAfter[k].available_version = Unknown

\* C29: update_program leaves the membership of the cached inventory
\* unchanged: every program that was in self.programs before the call is in
\* it after the call, so calls for several inventoried programs find each of
\* them, and the call raises nothing when the named program is excluded.
C29_UpdateKeepsInventory ==
    [][UpdateProgram
          => /\ Names(pmPrograms) \subseteq Names(pmPrograms')
             /\ ~updOut'.raised]_vars

\* A call that does not find its program leaves the list as it is.
NotFoundKeepsInventory ==
    [][(UpdateProgram /\ ~updOut'.found /\ pmPrograms # <<>>)
          => pmPrograms' = pmPrograms]_vars

\* The membership part alone.
UpdateKeepsMembers ==
    [][UpdateProgram => Names(pmPrograms) \subseteq Names(pmPrograms')]_vars

\* The part about excluded programs alone.
UpdateNeverRaises == ~updOut.raised

\* A call for a program that the detector has found does not find it in the
\* manager's list.
LostProgram ==
    /\ updOut.name # <<>> /\ ~updOut.found
    /\ \E k \in DOMAIN programs : Contains(Lower(programs[k].name), Lower(updOut.name))

\* The external tool processes that are running.
Procs == Cardinality({w \in Workers : workers[w].running})

\* C21: at any time the number of external tool processes spawned by the
\* subsystem (scans, update checks and installs together, over any sequence
\* of scan, check and install operations the drivers can start) is at most
\* the configured concurrency limit.
C21_ProcessBound == Procs <= MaxConcurrent

\* Each worker thread of the GUI has at most one process at a time.
OneProcessPerWorker ==
    \A w \in Workers : workers[w].running => workers[w].tools # <<>>

\* Two workers of the GUI, one in a scan and one in an install, have their
\* processes running at the same time under a limit of 1.
ScanAndInstallTogether ==
    /\ MaxConcurrent = 1
    /\ \E v, w \in Workers :
           /\ workers[v].op = "scan" /\ workers[v].running
           /\ workers[w].op = "update" /\ workers[w].running
           /\ Len(workers[w].tools) = 1
           /\ Installs(workers[w].plan.list[FindProgram(workers[w].plan.list,
                                                         workers[w].plan.name)],
                       workers[w].plan.inp.answers)

====
